---------------------------- MODULE Spec2Model ----------------------------
(***************************************************************************)
(* A model of mine.c, a terminal Minesweeper: the Grid (cells, cursor,     *)
(* mine count, open-cell counter), the mine placement loop of              *)
(* randomize_grid, and the run loop of main, which reads one key, runs the *)
(* matching case of the switch and redraws.                                *)
(*                                                                         *)
(* The source fixes the grid at 10 x 10 with 25 mines.  The model keeps    *)
(* the code's arithmetic (idx = row * COLS + col, the bounds tests of the  *)
(* cursor moves) and scales ROWS, COLS and max_mines down; nkeys counts    *)
(* the keys read and MaxKeys bounds the length of a session.               *)
(***************************************************************************)
EXTENDS Integers, FiniteSets, Sequences, TLC

\* Grid geometry and session bounds (scaled; see the header).
ROWS == 3
COLS == 3
max_mines == 2
MaxKeys == 4

VARIABLES
    cells,              \* Grid.cells: idx -> [type, open, flag]
    cur_row, cur_col,   \* Grid.cur_row, Grid.cur_col
    mines_count,        \* Grid.mines_count
    open_cells_count,   \* Grid.open_cells_count
    placed,             \* the local 'placed' of randomize_grid
    pc,                 \* where main is
    quit,               \* the local 'quit' of main
    ch,                 \* the last key read by the run loop ("none" before)
    outcome,            \* which branches the most recent ' ' case took
    nkeys,              \* number of platform_readkey calls so far
    term_inited,        \* the static term_inited
    tmode,              \* the terminal's mode: "orig" or "raw"
    query               \* the last coordinate query and what it returned

vars == <<cells, cur_row, cur_col, mines_count, open_cells_count, placed,
          pc, quit, ch, outcome, nkeys, term_inited, tmode, query>>

NCells == ROWS * COLS
Idx == 0 .. (NCells - 1)
Rows == 0 .. (ROWS - 1)
Cols == 0 .. (COLS - 1)

\* typedef enum { EMPTY, MINE, COUNT } Cell_Type
Cell_Type == {"EMPTY", "MINE", "COUNT"}

\* typedef struct { Cell_Type type; bool open, flag; } Cell
Cell == [type : Cell_Type, open : BOOLEAN, flag : BOOLEAN]

\* size_t idx = row * COLS + col
cell_idx(row, col) == row * COLS + col

\* what a call returns when its assert fails: nothing, the process aborts
SIGABRT == [type |-> "SIGABRT", open |-> FALSE, flag |-> FALSE]

\* cell_at: assert(idx < ROWS*COLS); return grid->cells[idx]
cell_at(c, row, col) ==
    IF cell_idx(row, col) < ROWS * COLS THEN c[cell_idx(row, col)] ELSE SIGABRT

\* set_cell: cells[idx].type = t
set_cell(c, row, col, t) == [c EXCEPT ![cell_idx(row, col)].type = t]

\* clear_grid's loop with cells[i].flag = false left out
clear_cells_keeps_flags(c) ==
    [i \in Idx |-> [c[i] EXCEPT !.type = "EMPTY", !.open = FALSE]]

\* clear_grid's loop: cells[i].type = EMPTY, .flag = false, .open = false
clear_cells(c) ==
    [i \in Idx |-> [c[i] EXCEPT !.type = "EMPTY", !.flag = FALSE, !.open = FALSE]]

\* Grid grid; is uninitialized before the first clear_grid: any contents
Uninitialized == {[i \in Idx |-> x] : x \in Cell}

\* for (dy = -1; dy <= 1; ++dy) for (dx = -1; dx <= 1; ++dx): <<dy, dx>>
Offsets == (-1 .. 1) \X (-1 .. 1)

\* count_nbors without 'if (dx == 0 && dy == 0) continue'
count_nbors_self(c, row, col) ==
    Cardinality({d \in Offsets :
        /\ ~(row + d[1] < 0 \/ row + d[1] >= ROWS
              \/ col + d[2] < 0 \/ col + d[2] >= COLS)
        /\ cell_at(c, row + d[1], col + d[2]).type = "MINE"})

\* count_nbors: the MINE cells among (row+dy, col+dx), dy, dx in -1..1, not
\* both 0, skipping r < 0, r >= ROWS, c < 0, c >= COLS
count_nbors(c, row, col) ==
    Cardinality({d \in Offsets :
        /\ ~(d[2] = 0 /\ d[1] = 0)
        /\ ~(row + d[1] < 0 \/ row + d[1] >= ROWS
              \/ col + d[2] < 0 \/ col + d[2] >= COLS)
        /\ cell_at(c, row + d[1], col + d[2]).type = "MINE"})

\* count_nbors aborts when one of its cell_at calls does
count_nbors_aborts(c, row, col) ==
    \E d \in Offsets :
        /\ ~(d[2] = 0 /\ d[1] = 0)
        /\ ~(row + d[1] < 0 \/ row + d[1] >= ROWS
              \/ col + d[2] < 0 \/ col + d[2] >= COLS)
        /\ cell_at(c, row + d[1], col + d[2]).type = "SIGABRT"

\* the coordinates queried: the grid and one row and one column past it
QueryCoords == (0 .. ROWS) \X (0 .. COLS)

\* no query made yet
NoQuery == [asked |-> FALSE, at |-> [rc \in {} |-> SIGABRT]]

----------------------------------------------------------------------------
(* draw_grid: the text written to stdout, as a header, two borders and     *)
(* one line of characters per row.                                         *)

\* '0' + (int)nbors, for the counts a cell can have
digit(nbors) == <<"1", "2", "3", "4", "5", "6", "7", "8">>[nbors]

\* the middle character of a cell that shows a '*' for each MINE, open or not
cell_char_peeks(g, r, c) ==
    LET cell == cell_at(g.cells, r, c)
    IN  IF cell.type = "MINE" THEN "*"
        ELSE IF ~cell.open THEN (IF cell.flag THEN "F" ELSE "#")
        ELSE IF count_nbors(g.cells, r, c) = 0 THEN " "
        ELSE digit(count_nbors(g.cells, r, c))

\* the middle character of a cell: F or # if not open, else by cell.type
cell_char(g, r, c) ==
    LET cell == cell_at(g.cells, r, c)
    IN  IF ~cell.open
        THEN (IF cell.flag THEN "F" ELSE "#")
        ELSE IF cell.type = "EMPTY"
             THEN LET nbors == count_nbors(g.cells, r, c)
                  IN  IF nbors = 0 THEN " " ELSE digit(nbors)
             ELSE IF cell.type = "MINE" THEN "*" ELSE "?"

\* for (c < COLS*3 + 2) putchar('-'); putchar('\n')
border == [k \in 1 .. (COLS * 3 + 2) |-> "-"]

\* '|', then per cell '[' or ' ', its character, ']' or ' ', then "|\n"
row_line(g, r) ==
    [k \in 1 .. (COLS * 3 + 2) |->
        IF k = 1 \/ k = COLS * 3 + 2 THEN "|"
        ELSE LET c == (k - 2) \div 3
                 at_cursor == g.cur_row = r /\ g.cur_col = c
             IN  CASE (k - 2) % 3 = 0 -> IF at_cursor THEN "[" ELSE " "
                   [] (k - 2) % 3 = 1 -> cell_char(g, r, c)
                   [] OTHER -> IF at_cursor THEN "]" ELSE " "]

\* draw_grid: the header's five numbers, the border, ROWS lines, the border
draw_grid(g) ==
    [header |-> <<COLS, ROWS, g.mines_count, g.open_cells_count, ROWS * COLS>>,
     top    |-> border,
     lines  |-> [r \in Rows |-> row_line(g, r)],
     bottom |-> border]

\* rand() % max_inclusive: the largest value is never drawn
randi_short(max_inclusive) == 0 .. (max_inclusive - 1)

\* randi(max_inclusive) = rand() % (max_inclusive + 1): any of 0..max_inclusive
randi(max_inclusive) == 0 .. max_inclusive

----------------------------------------------------------------------------
(* init_grid: clear_grid, then mines_count, then randomize_grid's loop.    *)

\* clear_grid with grid->open_cells_count = 0 left out
EnterInitGridKeepsCount(m) ==
    /\ cells' = clear_cells(cells)
    /\ cur_row' = 0
    /\ cur_col' = 0
    /\ open_cells_count' = open_cells_count
    /\ mines_count' = m
    /\ placed' = 0

\* clear_grid followed by grid->mines_count = m and placed = 0
EnterInitGrid(m) ==
    /\ cells' = clear_cells(cells)
    /\ cur_row' = 0
    /\ cur_col' = 0
    /\ open_cells_count' = 0
    /\ mines_count' = m
    /\ placed' = 0

InRandomize == pc \in {"init_grid", "reset", "api_init"}

\* the loop body without its test for a cell that is a MINE already
place_mine_again(g, rr, cc) ==
    [cells |-> set_cell(g.cells, rr, cc, "MINE"), placed |-> g.placed + 1]

\* if (cell_at(grid, rr, cc).type != MINE) { set_cell(.., MINE); placed++; }
place_mine(g, rr, cc) ==
    IF cell_at(g.cells, rr, cc).type # "MINE"
    THEN [cells |-> set_cell(g.cells, rr, cc, "MINE"), placed |-> g.placed + 1]
    ELSE g

\* one iteration of while (placed < grid->mines_count) that draws (rr, cc)
RandomizePick(rr, cc) ==
    /\ InRandomize
    /\ placed < mines_count
    /\ LET g == place_mine([cells |-> cells, placed |-> placed], rr, cc)
       IN  /\ cells' = g.cells
           /\ placed' = g.placed
    /\ UNCHANGED <<cur_row, cur_col, mines_count, open_cells_count, pc, quit,
                   ch, outcome, nkeys, term_inited, tmode, query>>

\* int rr = randi(ROWS - 1); int cc = randi(COLS - 1);
RandomizeIter ==
    \E rr \in randi(ROWS - 1), cc \in randi(COLS - 1) : RandomizePick(rr, cc)

\* the loop test fails: randomize_grid and init_grid return
RandomizeReturn ==
    /\ InRandomize
    /\ ~(placed < mines_count)
    /\ pc' = CASE pc = "init_grid" -> "isatty"
               [] pc = "reset" -> "readkey"
               [] OTHER -> "api_idle"
    /\ UNCHANGED <<cells, cur_row, cur_col, mines_count, open_cells_count,
                   placed, quit, ch, outcome, nkeys, term_inited, tmode, query>>

----------------------------------------------------------------------------
(* main up to the run loop.                                                *)

\* main: init_grid(&grid, max_mines) entered, at the head of the loop
Init ==
    /\ \E c \in Uninitialized : cells = clear_cells(c)
    /\ cur_row = 0
    /\ cur_col = 0
    /\ open_cells_count = 0
    /\ mines_count = max_mines
    /\ placed = 0
    /\ pc = "init_grid"
    /\ quit = FALSE
    /\ ch = "none"
    /\ outcome = "None"
    /\ nkeys = 0
    /\ term_inited = FALSE
    /\ tmode = "orig"
    /\ query = NoQuery

\* if (!isatty(STDIN_FILENO)) return 1
NotATty ==
    /\ pc = "isatty"
    /\ pc' = "exit"
    /\ UNCHANGED <<cells, cur_row, cur_col, mines_count, open_cells_count,
                   placed, quit, ch, outcome, nkeys, term_inited, tmode, query>>

\* enable_raw_mode(); bool quit = false; draw_grid
enable_raw_mode ==
    /\ pc = "isatty"
    /\ tmode' = "raw"
    /\ term_inited' = TRUE
    /\ quit' = FALSE
    /\ pc' = "readkey"
    /\ UNCHANGED <<cells, cur_row, cur_col, mines_count, open_cells_count,
                   placed, ch, outcome, nkeys, query>>

----------------------------------------------------------------------------
(* The run loop: while (!quit) { ch = platform_readkey(); switch (ch) }    *)

\* a loop that stops reading keys once a MINE is open
LoopHeadLocked ==
    /\ pc = "readkey" /\ ~quit /\ nkeys < MaxKeys
    /\ ~\E i \in Idx : cells[i].type = "MINE" /\ cells[i].open

\* while (!quit), and a key to read
LoopHead == pc = "readkey" /\ ~quit /\ nkeys < MaxKeys

\* what every iteration does besides its case: the blocking read
Read(k) ==
    /\ LoopHead
    /\ ch' = k
    /\ nkeys' = nkeys + 1
    /\ UNCHANGED <<placed, term_inited, tmode, query>>

\* if (ch < 0) continue
KeyFail ==
    /\ Read("fail")
    /\ outcome' = outcome
    /\ UNCHANGED <<cells, cur_row, cur_col, mines_count, open_cells_count,
                   pc, quit>>

\* case 'd' with the test off by one: cur_col < COLS
move_right_past(col) == IF col < COLS THEN col + 1 ELSE col

\* case 'd': if (grid.cur_col < COLS-1) grid.cur_col++
move_right(col) == IF col < COLS - 1 THEN col + 1 ELSE col

KeyRight ==
    /\ Read("d")
    /\ outcome' = outcome
    /\ cur_col' = move_right(cur_col)
    /\ UNCHANGED <<cells, cur_row, mines_count, open_cells_count, pc, quit>>

\* case 'a': if (grid.cur_col > 0) grid.cur_col--
move_left(col) == IF col > 0 THEN col - 1 ELSE col

KeyLeft ==
    /\ Read("a")
    /\ outcome' = outcome
    /\ cur_col' = move_left(cur_col)
    /\ UNCHANGED <<cells, cur_row, mines_count, open_cells_count, pc, quit>>

\* case 's': if (grid.cur_row < ROWS-1) grid.cur_row++
move_down(row) == IF row < ROWS - 1 THEN row + 1 ELSE row

KeyDown ==
    /\ Read("s")
    /\ outcome' = outcome
    /\ cur_row' = move_down(cur_row)
    /\ UNCHANGED <<cells, cur_col, mines_count, open_cells_count, pc, quit>>

\* case 'w': if (grid.cur_row > 0) grid.cur_row--
move_up(row) == IF row > 0 THEN row - 1 ELSE row

KeyUp ==
    /\ Read("w")
    /\ outcome' = outcome
    /\ cur_row' = move_up(cur_row)
    /\ UNCHANGED <<cells, cur_col, mines_count, open_cells_count, pc, quit>>

\* the open step without its test: counts a cell that is open already
open_cell_always_counts(g, i) ==
    [cells |-> [g.cells EXCEPT ![i].open = TRUE], count |-> g.count + 1]

\* the open step also taking the flag off the cell it opens
open_cell_unflag(g, i) ==
    IF ~g.cells[i].open
    THEN [cells |-> [g.cells EXCEPT ![i].open = TRUE, ![i].flag = FALSE],
          count |-> g.count + 1]
    ELSE g

\* the open step also making the cell it opens EMPTY
open_cell_defuses(g, i) ==
    IF ~g.cells[i].open
    THEN [cells |-> [g.cells EXCEPT ![i].open = TRUE, ![i].type = "EMPTY"],
          count |-> g.count + 1]
    ELSE g

\* the open step flipping open instead of setting it
open_cell_toggles(g, i) ==
    [cells |-> [g.cells EXCEPT ![i].open = ~g.cells[i].open],
     count |-> IF g.cells[i].open THEN g.count - 1 ELSE g.count + 1]

\* if (!grid.cells[idx].open) { open = true; open_cells_count++; }
open_cell(g, i) ==
    IF ~g.cells[i].open
    THEN [cells |-> [g.cells EXCEPT ![i].open = TRUE], count |-> g.count + 1]
    ELSE g

\* the "reveal all" loops stopping one cell short
RECURSIVE reveal_all_short(_, _)
reveal_all_short(g, i) ==
    IF i >= ROWS * COLS - 1 THEN g ELSE reveal_all_short(open_cell(g, i), i + 1)

\* the "reveal all" loops: cells i, i+1, ... in row-major order
RECURSIVE reveal_all(_, _)
reveal_all(g, i) ==
    IF i >= ROWS * COLS THEN g ELSE reveal_all(open_cell(g, i), i + 1)

\* case ' ' without the test for a MINE: every reveal reveals all
reveal_everything(g, idx) == reveal_all(open_cell(g, idx), 0)

\* case ' ' without the reveal-all loops
reveal_cell_only(g, idx) == open_cell(g, idx)

\* case ' ': open the cell under the cursor; if it is a MINE, reveal all
reveal(g, idx) ==
    LET g1 == open_cell(g, idx)
    IN  IF g1.cells[idx].type = "MINE" THEN reveal_all(g1, 0) ELSE g1

\* which branches case ' ' takes
reveal_outcome(c, idx) ==
    IF c[idx].open
    THEN (IF c[idx].type = "MINE" THEN "AlreadyOpenMine" ELSE "AlreadyOpen")
    ELSE (IF c[idx].type = "MINE" THEN "Detonated" ELSE "Opened")

\* assert(idx < COLS*ROWS) fails: the process aborts
AssertFails ==
    /\ pc' = "abort"
    /\ UNCHANGED <<cells, open_cells_count, outcome>>

KeyReveal ==
    /\ Read(" ")
    /\ LET idx == cell_idx(cur_row, cur_col)
           g == reveal([cells |-> cells, count |-> open_cells_count], idx)
       IN  IF idx < COLS * ROWS
           THEN /\ cells' = g.cells
                /\ open_cells_count' = g.count
                /\ outcome' = reveal_outcome(cells, idx)
                /\ pc' = pc
           ELSE AssertFails
    /\ UNCHANGED <<cur_row, cur_col, mines_count, quit>>

\* the flag set instead of flipped
toggle_flag_sets(c, idx) == [c EXCEPT ![idx].flag = TRUE]

\* grid.cells[idx].flag = !grid.cells[idx].flag
toggle_flag(c, idx) == [c EXCEPT ![idx].flag = ~c[idx].flag]

\* case 'f', behind assert(idx < COLS*ROWS)
KeyFlag ==
    /\ Read("f")
    /\ outcome' = outcome
    /\ LET idx == cell_idx(cur_row, cur_col)
       IN  IF idx < COLS * ROWS
           THEN cells' = toggle_flag(cells, idx) /\ pc' = pc
           ELSE cells' = cells /\ pc' = "abort"
    /\ UNCHANGED <<cur_row, cur_col, mines_count, open_cells_count, quit>>

\* case 'q': quit = true
KeyQuit ==
    /\ Read("q")
    /\ outcome' = outcome
    /\ quit' = TRUE
    /\ UNCHANGED <<cells, cur_row, cur_col, mines_count, open_cells_count, pc>>

\* case 'r': init_grid(&grid, max_mines), up to the head of its loop
KeyReset ==
    /\ LoopHead
    /\ ch' = "r"
    /\ nkeys' = nkeys + 1
    /\ outcome' = outcome
    /\ EnterInitGrid(max_mines)
    /\ pc' = "reset"
    /\ UNCHANGED <<quit, term_inited, tmode, query>>

\* default: taken as quit
KeyOtherQuits ==
    /\ Read("x")
    /\ outcome' = outcome
    /\ quit' = TRUE
    /\ UNCHANGED <<cells, cur_row, cur_col, mines_count, open_cells_count, pc>>

\* default: break
KeyOther ==
    /\ Read("x")
    /\ outcome' = outcome
    /\ UNCHANGED <<cells, cur_row, cur_col, mines_count, open_cells_count,
                   pc, quit>>

\* if (term_inited) { tcsetattr(.., &oldt); term_inited = false; }
disable_raw_mode ==
    /\ tmode' = IF term_inited THEN "orig" ELSE tmode
    /\ term_inited' = FALSE

\* SIGINT while read() blocks: enable_raw_mode leaves ISIG set and the file
\* installs no handler, so the process ends there, in the mode it is in
Interrupt ==
    /\ LoopHead
    /\ pc' = "killed"
    /\ UNCHANGED <<cells, cur_row, cur_col, mines_count, open_cells_count,
                   placed, quit, ch, outcome, nkeys, term_inited, tmode,
                   query>>

\* the loop test fails: disable_raw_mode(); return 0
Exit ==
    /\ pc = "readkey"
    /\ quit
    /\ disable_raw_mode
    /\ pc' = "exit"
    /\ UNCHANGED <<cells, cur_row, cur_col, mines_count, open_cells_count,
                   placed, quit, ch, outcome, nkeys, query>>

Next ==
    \/ RandomizeIter
    \/ RandomizeReturn
    \/ NotATty
    \/ enable_raw_mode
    \/ KeyFail
    \/ KeyRight
    \/ KeyLeft
    \/ KeyDown
    \/ KeyUp
    \/ KeyReveal
    \/ KeyFlag
    \/ KeyQuit
    \/ KeyReset
    \/ KeyOther
    \/ Interrupt
    \/ Exit

Spec == Init /\ [][Next]_vars

----------------------------------------------------------------------------
(* init_grid as the engine's initialize/reset: called with any mines_count, *)
(* again and again, on the grid the previous call left.                    *)

\* the mines_count arguments tried: 0 .. ROWS*COLS - 1 are valid
MineCounts == 0 .. (ROWS * COLS + 1)

\* the first init_grid(&grid, m), at the head of randomize_grid's loop
InitApi ==
    /\ \E c \in Uninitialized : cells = clear_cells(c)
    /\ cur_row = 0
    /\ cur_col = 0
    /\ open_cells_count = 0
    /\ mines_count \in MineCounts
    /\ placed = 0
    /\ pc = "api_init"
    /\ quit = FALSE
    /\ ch = "none"
    /\ outcome = "None"
    /\ nkeys = 0
    /\ term_inited = FALSE
    /\ tmode = "orig"
    /\ query = NoQuery

\* init_grid(&grid, m) on an initialized grid
ApiInitGrid ==
    /\ pc = "api_idle"
    /\ \E m \in MineCounts : EnterInitGrid(m)
    /\ pc' = "api_init"
    /\ UNCHANGED <<quit, ch, outcome, nkeys, term_inited, tmode, query>>

NextApi ==
    \/ RandomizeIter
    \/ RandomizeReturn
    \/ ApiInitGrid

SpecInit == InitApi /\ [][NextApi]_vars

\* rand() draws every (rr, cc) again and again, so while a cell is not a
\* MINE an iteration that draws such a cell is taken; the loop test is run
SpecInitFair ==
    /\ SpecInit
    /\ WF_vars(RandomizeIter)
    /\ WF_vars(RandomizeReturn)

----------------------------------------------------------------------------
(* cell_at and count_nbors as queries: called with every (row, col) of     *)
(* 0..ROWS x 0..COLS, one past the grid included, on any mine layout.      *)

\* every grid of concealed, unflagged EMPTY and MINE cells
Layouts ==
    [Idx -> {[type |-> t, open |-> FALSE, flag |-> FALSE] : t \in {"EMPTY", "MINE"}}]

InitQuery ==
    /\ cells \in Layouts
    /\ cur_row = 0
    /\ cur_col = 0
    /\ open_cells_count = 0
    /\ mines_count = Cardinality({i \in Idx : cells[i].type = "MINE"})
    /\ placed = mines_count
    /\ pc = "api_idle"
    /\ quit = FALSE
    /\ ch = "none"
    /\ outcome = "None"
    /\ nkeys = 0
    /\ term_inited = FALSE
    /\ tmode = "orig"
    /\ query = NoQuery

\* cell_at(&grid, row, col) and count_nbors(&grid, row, col), for each
\* (row, col) of QueryCoords
Query ==
    /\ pc = "api_idle"
    /\ ~query.asked
    /\ query' = [asked |-> TRUE,
                 at |-> [rc \in QueryCoords |->
                    [cell |-> cell_at(cells, rc[1], rc[2]),
                     nbors |-> count_nbors(cells, rc[1], rc[2]),
                     nbors_aborted |-> count_nbors_aborts(cells, rc[1], rc[2])]]]
    /\ UNCHANGED <<cells, cur_row, cur_col, mines_count, open_cells_count,
                   placed, pc, quit, ch, outcome, nkeys, term_inited, tmode>>

NextQuery == Query

SpecQuery == InitQuery /\ [][NextQuery]_vars


----------------------------------------------------------------------------
(* Properties.                                                             *)

Mines(c) == {i \in Idx : c[i].type = "MINE"}
OpenCells(c) == {i \in Idx : c[i].open}
Flagged(c) == {i \in Idx : c[i].flag}
CursorIdx == cell_idx(cur_row, cur_col)

\* a step of the run loop that read key k
KeyStep(k) == nkeys' = nkeys + 1 /\ ch' = k

\* C1: when init_grid returns for a valid mines_count (0 <= mines_count <
\* ROWS*COLS), exactly mines_count cells are MINE, every other cell is EMPTY,
\* and placed counted each of them once.
C1_InitPlacesExactly ==
    (pc = "api_idle" /\ mines_count < ROWS * COLS) =>
        /\ Cardinality(Mines(cells)) = mines_count
        /\ \A i \in Idx \ Mines(cells) : cells[i].type = "EMPTY"
        /\ placed = mines_count

\* init_grid has returned with the densest valid grid: one cell left EMPTY
C1_Witness ==
    /\ pc = "api_idle"
    /\ mines_count = ROWS * COLS - 1
    /\ Cardinality(Mines(cells)) = ROWS * COLS - 1

\* C2: in every state, open_cells_count is the number of cells with open
\* set.
C2_CountMatchesOpen == open_cells_count = Cardinality(OpenCells(cells))

\* two cells opened one by one, and other keys read since
C2_Witness ==
    /\ open_cells_count = 2
    /\ Cardinality(OpenCells(cells)) = 2
    /\ outcome = "Opened"
    /\ ch = "f"

MoveKeys == {"d", "a", "s", "w"}

AgainstBoundary(k) ==
    \/ k = "d" /\ cur_col = COLS - 1
    \/ k = "a" /\ cur_col = 0
    \/ k = "s" /\ cur_row = ROWS - 1
    \/ k = "w" /\ cur_row = 0

C3_MoveStep ==
    \A k \in MoveKeys :
        KeyStep(k) =>
            IF AgainstBoundary(k)
            THEN UNCHANGED <<cells, cur_row, cur_col, mines_count,
                             open_cells_count, quit, pc>>
            ELSE /\ k = "d" => cur_col' = cur_col + 1 /\ cur_row' = cur_row
                 /\ k = "a" => cur_col' = cur_col - 1 /\ cur_row' = cur_row
                 /\ k = "s" => cur_row' = cur_row + 1 /\ cur_col' = cur_col
                 /\ k = "w" => cur_row' = cur_row - 1 /\ cur_col' = cur_col
                 /\ UNCHANGED <<cells, mines_count, open_cells_count, quit, pc>>

\* C3: the cursor is always within [0,ROWS) x [0,COLS), so that the asserts
\* on idx never fail; a move against a boundary changes nothing of the grid,
\* and any other move changes one coordinate of the cursor by one.
C3_CursorInBounds ==
    /\ [](cur_row \in Rows /\ cur_col \in Cols /\ pc # "abort")
    /\ [][C3_MoveStep]_vars

\* the first key was 'w', against the top boundary
C3_Witness == ch = "w" /\ nkeys = 1 /\ cur_row = 0 /\ cur_col = 0

\* C4: ' ' on a concealed EMPTY cell opens that cell only and adds one to
\* open_cells_count; no other cell changes, whatever the neighbour count.
C4_RevealEmpty ==
    [][(KeyStep(" ") /\ ~cells[CursorIdx].open
            /\ cells[CursorIdx].type = "EMPTY") =>
        /\ cells' = [cells EXCEPT ![CursorIdx].open = TRUE]
        /\ open_cells_count' = open_cells_count + 1]_vars

\* an EMPTY cell with no MINE around it was opened, and it alone is open
C4_Witness ==
    /\ ch = " "
    /\ outcome = "Opened"
    /\ count_nbors(cells, cur_row, cur_col) = 0
    /\ OpenCells(cells) = {CursorIdx}
    /\ open_cells_count = 1

\* C5: ' ' on a concealed MINE cell leaves every cell open and
\* open_cells_count = ROWS*COLS.
C5_RevealMine ==
    [][(KeyStep(" ") /\ ~cells[CursorIdx].open
            /\ cells[CursorIdx].type = "MINE") =>
        /\ \A i \in Idx : cells'[i].open
        /\ open_cells_count' = ROWS * COLS]_vars

\* a MINE away from the first cell was opened as the third key or later
C5_Witness ==
    /\ ch = " "
    /\ outcome = "Detonated"
    /\ CursorIdx # 0
    /\ nkeys >= 3
    /\ OpenCells(cells) = Idx
    /\ open_cells_count = ROWS * COLS

\* C6: ' ' on a cell that is open already, EMPTY or MINE, changes no cell,
\* no counter and no cursor coordinate.
C6_RevealOpenNoop ==
    [][(KeyStep(" ") /\ cells[CursorIdx].open) =>
        UNCHANGED <<cells, cur_row, cur_col, mines_count, open_cells_count,
                    quit, pc>>]_vars

\* ' ' was pressed on an open MINE
C6_Witness == ch = " " /\ outcome = "AlreadyOpenMine"

\* C7: ' ' never changes a flag, whichever branches it takes.
C7_RevealKeepsFlags ==
    [][KeyStep(" ") => \A i \in Idx : cells'[i].flag = cells[i].flag]_vars

\* a flagged MINE was opened and the detonation opened another flagged cell
C7_Witness ==
    /\ ch = " "
    /\ outcome = "Detonated"
    /\ cells[CursorIdx].flag
    /\ \E j \in Idx \ {CursorIdx} : cells[j].flag /\ cells[j].open

\* C8: 'f' flips the flag of the cell under the cursor, open or not, and
\* changes nothing else; flipping again gives the cells before the step.
C8_ToggleFlag ==
    [][KeyStep("f") =>
        /\ cells' = [cells EXCEPT ![CursorIdx].flag = ~cells[CursorIdx].flag]
        /\ toggle_flag(cells', CursorIdx) = cells
        /\ UNCHANGED <<cur_row, cur_col, mines_count, open_cells_count,
                       quit, pc>>]_vars

\* the third key, 'f', took the flag off an open cell: no flag is left
C8_Witness ==
    /\ ch = "f"
    /\ nkeys = 3
    /\ cells[CursorIdx].open
    /\ Flagged(cells) = {}

\* C9: when 'r' has been handled, no cell is open or flagged, the cursor is
\* at (0,0), open_cells_count is 0, and exactly mines_count = max_mines cells
\* are MINE.
C9_ResetFresh ==
    (ch = "r" /\ pc = "readkey") =>
        /\ OpenCells(cells) = {}
        /\ Flagged(cells) = {}
        /\ cur_row = 0
        /\ cur_col = 0
        /\ open_cells_count = 0
        /\ mines_count = max_mines
        /\ Cardinality(Mines(cells)) = mines_count
        /\ \A i \in Idx \ Mines(cells) : cells[i].type = "EMPTY"

\* a reset that followed a detonation has completed
C9_Witness ==
    /\ ch = "r"
    /\ pc = "readkey"
    /\ outcome = "Detonated"
    /\ nkeys >= 3

\* C10: init_grid called on an initialized grid with a mines_count outside
\* [0, ROWS*COLS) leaves the grid as it was.
C10_InvalidConfigRejected ==
    [][(pc = "api_idle" /\ pc' = "api_init"
            /\ mines_count' \notin 0 .. (ROWS * COLS - 1)) =>
        UNCHANGED <<cells, cur_row, cur_col, mines_count,
                    open_cells_count>>]_vars

\* the cell at idx is (idx \div COLS, idx % COLS)
RowOf(i) == i \div COLS
ColOf(i) == i % COLS
Dist(a, b) == IF a >= b THEN a - b ELSE b - a

\* the cells of the grid at Chebyshev distance 1 from (row, col)
Around(row, col) ==
    {i \in Idx : /\ Dist(RowOf(i), row) <= 1
                 /\ Dist(ColOf(i), col) <= 1
                 /\ ~(RowOf(i) = row /\ ColOf(i) = col)}

OnBorders(row, col) ==
    (IF row \in {0, ROWS - 1} THEN 1 ELSE 0) + (IF col \in {0, COLS - 1} THEN 1 ELSE 0)

\* every cell's open and flag negated
FlipMarks(c) ==
    [i \in Idx |-> [c[i] EXCEPT !.open = ~c[i].open, !.flag = ~c[i].flag]]

Queried == query.asked
InGrid(rc) == rc[1] \in Rows /\ rc[2] \in Cols

\* C11: a query with row outside [0,ROWS) or col outside [0,COLS) ends in
\* the assertion failure, for cell_at and for count_nbors; no value comes
\* back.
C11_OutOfRangeAborts ==
    Queried =>
        \A rc \in QueryCoords :
            ~InGrid(rc) =>
                query.at[rc].cell = SIGABRT /\ query.at[rc].nbors_aborted

\* C12: for (row, col) in the grid, count_nbors is the number of MINE cells
\* among the cells of the grid at Chebyshev distance 1: 3 cells at a corner,
\* 5 on an edge, 8 inside, the cell itself never; it is at most 8 and does
\* not read open or flag.
C12_CountNbors ==
    Queried =>
        LET mines == Mines(cells)
            flipped == FlipMarks(cells)
        IN  \A rc \in QueryCoords :
                InGrid(rc) =>
                    /\ ~query.at[rc].nbors_aborted
                    /\ query.at[rc].nbors =
                           Cardinality(Around(rc[1], rc[2]) \cap mines)
                    /\ query.at[rc].nbors \in 0 .. 8
                    /\ mines = Idx =>
                          query.at[rc].nbors =
                              CASE OnBorders(rc[1], rc[2]) = 2 -> 3
                                [] OnBorders(rc[1], rc[2]) = 1 -> 5
                                [] OTHER -> 8
                    /\ count_nbors(flipped, rc[1], rc[2]) = query.at[rc].nbors

\* the queries of a grid with 3, 5 and 8 MINE cells around a corner, an
\* edge and an inner cell
C12_Witness ==
    /\ Queried
    /\ \E rc \in QueryCoords : OnBorders(rc[1], rc[2]) = 0 /\ query.at[rc].nbors = 8
    /\ \E rc \in QueryCoords :
          InGrid(rc) /\ OnBorders(rc[1], rc[2]) = 1 /\ query.at[rc].nbors = 5
    /\ query.at[<<0, 0>>].nbors = 3

\* C13: a key that is none of d, a, s, w, ' ', f, q, r, and a failed read,
\* leave the cells, the cursor, both counters and quit as they were.
C13_IgnoredKeys ==
    [][(KeyStep("x") \/ KeyStep("fail")) =>
        UNCHANGED <<cells, cur_row, cur_col, mines_count, open_cells_count,
                    quit, pc>>]_vars

\* an unmapped key was read with a cell open and a cell flagged
C13_Witness ==
    /\ ch = "x"
    /\ outcome = "Opened"
    /\ OpenCells(cells) # {}
    /\ Flagged(cells) # {}

\* C14: no step outside init_grid (a move, ' ', f, q, another key, a failed
\* read, the exit) changes a cell's type or mines_count, and whenever the
\* loop awaits a key exactly mines_count cells are MINE.
C14_KindsFixed ==
    /\ [][(~InRandomize /\ ~KeyStep("r")) =>
            /\ \A i \in Idx : cells'[i].type = cells[i].type
            /\ mines_count' = mines_count]_vars
    /\ [](pc = "readkey" => Cardinality(Mines(cells)) = mines_count)

\* a flag was toggled after a detonation and the MINE cells are all there
C14_Witness ==
    /\ pc = "readkey"
    /\ ch = "f"
    /\ outcome = "Detonated"
    /\ OpenCells(cells) = Idx
    /\ Cardinality(Mines(cells)) = max_mines

\* C15: a step that closes an open cell, or lowers open_cells_count, is the
\* step that handles 'r'.
C15_OpenMonotone ==
    [][((\E i \in Idx : cells[i].open /\ ~cells'[i].open)
            \/ open_cells_count' < open_cells_count) =>
        KeyStep("r")]_vars

\* ' ' then 'r': the reset closed the cell the first key opened
C15_Witness ==
    /\ ch = "r"
    /\ nkeys = 2
    /\ outcome = "Opened"
    /\ OpenCells(cells) = {}

MineShown == \E i \in Idx : cells[i].type = "MINE" /\ cells[i].open

\* C16: with a MINE open the loop still reads keys: moves, f and r are
\* handled as ever (the move by its boundary test, f flipping the flag under
\* the cursor, r clearing the grid), and only r leaves a concealed cell.
C16_NoGameOverLock ==
    /\ []((MineShown /\ pc = "readkey" /\ ~quit /\ nkeys < MaxKeys) =>
            /\ ENABLED KeyRight /\ ENABLED KeyLeft
            /\ ENABLED KeyDown /\ ENABLED KeyUp
            /\ ENABLED KeyFlag /\ ENABLED KeyReset)
    /\ [][MineShown =>
            /\ KeyStep("f") =>
                  cells' = [cells EXCEPT ![CursorIdx].flag = ~cells[CursorIdx].flag]
            /\ KeyStep("d") =>
                  cur_col' = IF cur_col < COLS - 1 THEN cur_col + 1 ELSE cur_col
            /\ KeyStep("a") =>
                  cur_col' = IF cur_col > 0 THEN cur_col - 1 ELSE cur_col
            /\ KeyStep("s") =>
                  cur_row' = IF cur_row < ROWS - 1 THEN cur_row + 1 ELSE cur_row
            /\ KeyStep("w") =>
                  cur_row' = IF cur_row > 0 THEN cur_row - 1 ELSE cur_row
            /\ KeyStep("r") =>
                  /\ OpenCells(cells') = {} /\ Flagged(cells') = {}
                  /\ cur_row' = 0 /\ cur_col' = 0 /\ open_cells_count' = 0
            /\ OpenCells(cells') # Idx => KeyStep("r")]_vars

\* after a detonation the cursor was moved and a flag set on an open cell
C16_Witness ==
    /\ MineShown
    /\ ch = "f"
    /\ CursorIdx # 0
    /\ cells[CursorIdx].flag
    /\ nkeys >= 3

grid ==
    [cells |-> cells, cur_row |-> cur_row, cur_col |-> cur_col,
     mines_count |-> mines_count, open_cells_count |-> open_cells_count]

\* what two grids must agree on: the cursor, the counters, each cell's open
\* and flag, the type of an open cell, the count of an open EMPTY cell
Snapshot(g) ==
    [cur_row |-> g.cur_row, cur_col |-> g.cur_col,
     mines_count |-> g.mines_count, open_cells_count |-> g.open_cells_count,
     view |-> [i \in Idx |->
        [open |-> g.cells[i].open,
         flag |-> g.cells[i].flag,
         type |-> IF g.cells[i].open THEN g.cells[i].type ELSE "concealed",
         nbors |-> IF g.cells[i].open /\ g.cells[i].type = "EMPTY"
                   THEN count_nbors(g.cells, RowOf(i), ColOf(i))
                   ELSE 0]]]

\* the text drawn from a snapshot alone
draw_snapshot(s) ==
    [header |-> <<COLS, ROWS, s.mines_count, s.open_cells_count, ROWS * COLS>>,
     top    |-> [k \in 1 .. (COLS * 3 + 2) |-> "-"],
     lines  |-> [r \in Rows |-> [k \in 1 .. (COLS * 3 + 2) |->
        IF k = 1 \/ k = COLS * 3 + 2 THEN "|"
        ELSE LET c == (k - 2) \div 3
                 v == s.view[r * COLS + c]
                 at_cursor == s.cur_row = r /\ s.cur_col = c
             IN  CASE (k - 2) % 3 = 0 -> IF at_cursor THEN "[" ELSE " "
                   [] (k - 2) % 3 = 2 -> IF at_cursor THEN "]" ELSE " "
                   [] OTHER ->
                        IF v.type = "concealed"
                        THEN (IF v.flag THEN "F" ELSE "#")
                        ELSE IF v.type = "MINE" THEN "*"
                        ELSE IF v.type # "EMPTY" THEN "?"
                        ELSE IF v.nbors = 0 THEN " "
                        ELSE <<"1", "2", "3", "4", "5", "6", "7", "8">>[v.nbors]]],
     bottom |-> [k \in 1 .. (COLS * 3 + 2) |-> "-"]]

\* C17: draw_grid's output is a function of the snapshot, so two grids with
\* the same snapshot are drawn the same; and a cell that is not open is
\* drawn as F or # by its flag.
C17_DrawHidesConcealed ==
    [](/\ draw_grid(grid) = draw_snapshot(Snapshot(grid))
       /\ \A i \in Idx \ OpenCells(cells) :
             cell_char(grid, RowOf(i), ColOf(i)) =
                IF cells[i].flag THEN "F" ELSE "#")

\* a drawn grid with a concealed MINE, a concealed EMPTY cell, a flag on a
\* concealed cell and an open cell that shows a count
C17_Witness ==
    /\ pc = "readkey"
    /\ \E i \in Mines(cells) : ~cells[i].open /\ cells[i].flag
    /\ \E i \in Idx \ Mines(cells) : ~cells[i].open /\ ~cells[i].flag
    /\ \E i \in OpenCells(cells) :
          draw_grid(grid).lines[RowOf(i)][ColOf(i) * 3 + 3] \in {"1", "2"}

\* C18: 'q' sets quit and leaves the grid alone; once quit is set no key is
\* read and the only step is the exit; however the program ends (return,
\* abort, or a signal's default action), the terminal is in its original
\* mode.
C18_QuitAndRestore ==
    /\ [][KeyStep("q") =>
            /\ quit'
            /\ UNCHANGED <<cells, cur_row, cur_col, mines_count,
                           open_cells_count>>]_vars
    /\ [][quit =>
            /\ nkeys' = nkeys /\ ch' = ch /\ pc' = "exit"
            /\ UNCHANGED <<cells, cur_row, cur_col, mines_count,
                           open_cells_count>>]_vars
    /\ []((quit /\ pc = "readkey") => ENABLED Exit)
    /\ [](pc \in {"exit", "abort", "killed"} => tmode = "orig")

\* C19: in randomize_grid, placed is the number of MINE cells, drawing a
\* cell that is a MINE already changes nothing, no MINE cell stops being one,
\* and with every cell drawn again and again the loop ends for every
\* mines_count below ROWS*COLS.
C19_PlacementTerminates ==
    /\ [](placed = Cardinality(Mines(cells)))
    /\ [](\A rr \in randi(ROWS - 1), cc \in randi(COLS - 1) :
            cell_at(cells, rr, cc).type = "MINE" =>
                place_mine([cells |-> cells, placed |-> placed], rr, cc)
                    = [cells |-> cells, placed |-> placed])
    /\ [][pc = "api_init" => Mines(cells) \subseteq Mines(cells')]_vars
    /\ (pc = "api_init" /\ mines_count < ROWS * COLS) ~> (pc = "api_idle")

\* the loop is about to end with all cells but one a MINE
C19_Witness ==
    /\ pc = "api_init"
    /\ mines_count = ROWS * COLS - 1
    /\ placed = mines_count

\* C20: if a MINE is open then every cell is open and open_cells_count is
\* ROWS*COLS; otherwise open_cells_count is at most ROWS*COLS - mines_count.
C20_MineShownAllOpen ==
    IF MineShown
    THEN OpenCells(cells) = Idx /\ open_cells_count = ROWS * COLS
    ELSE open_cells_count <= ROWS * COLS - mines_count

\* cells were opened one by one before a MINE was hit
C20_Witness ==
    /\ MineShown
    /\ outcome = "Detonated"
    /\ ch = " "
    /\ nkeys = 4
    /\ cur_row = 1 /\ cur_col = 1

=============================================================================
